---- MODULE Spec2Model ----
(***************************************************************************)
(* hypercorecrypto: the hashing and derivation functions of                *)
(* src/hypercorecrypto.go (Data, Parent, Tree, DiscoveryKey, Namespace),   *)
(* called by a caller that lays the arguments out in its own memory.       *)
(*                                                                         *)
(* Bytes.  A byte is a record [lit, pre, pos].  A byte whose value the     *)
(* caller or the code wrote is B(v) = [lit |-> v, pre |-> <<>>, pos |-> 0] *)
(* with v in 0..255.  The k-th byte of the BLAKE2b-256 checksum of the     *)
(* stream s is [lit |-> -1, pre |-> s, pos |-> k]: the checksum is         *)
(* collision free (two checksums are equal iff the streams are), and its   *)
(* bytes are told apart from every written byte.                           *)
(*                                                                         *)
(* uint64.  A uint64 is its MaxVarintLen64 = 10 base-128 digits, least     *)
(* significant first, the last digit being the single bit 63               *)
(* (9 * 7 + 1 = 64 bits), so that sums wrap at 2^64 exactly as in Go.      *)
(***************************************************************************)
EXTENDS Integers, Sequences, FiniteSets

VARIABLES
    pc,         \* "start": nothing laid out; "idle": arguments laid out, call pending;
                \* "done": the call returned
    op,         \* the function called: "Data", "Parent", "Tree", "DiscoveryKey", "Namespace"
    data,       \* Data's argument
    a, b,       \* Parent's arguments (TreeNode)
    roots,      \* Tree's roots
    out,        \* Tree's out slice: [nil, len, arr]; arr is the backing array, cap = Len(arr)
    publicKey,  \* DiscoveryKey's argument
    name,       \* Namespace's name
    count,      \* Namespace's count
    hash,       \* the bytes written to the call's hasher since New256 or the last Reset
    ret         \* what the call returned: [status, digest, ids, aliasesOut]

vars == <<pc, op, data, a, b, roots, out, publicKey, name, count, hash, ret>>

(***************************************************************************)
(* Program constants                                                       *)
(***************************************************************************)
LeafType == 0
ParentType == 1
RootType == 2
Hypercore == <<104, 121, 112, 101, 114, 99, 111, 114, 101>>   \* "hypercore"
Size256 == 32          \* bytes of a blake2b.New256 checksum
MaxVarintLen64 == 10   \* encoding/binary.MaxVarintLen64
NsLen == 33            \* ns := make([]byte, 33)

(***************************************************************************)
(* Bytes and byte sequences                                                *)
(***************************************************************************)
B(v) == [lit |-> v, pre |-> <<>>, pos |-> 0]

\* a function on 1..n as the sequence of its n values
Elements(f, n) == SubSeq(f, 1, n)

Bytes(s) == Elements([i \in 1..Len(s) |-> B(s[i])], Len(s))

\* make([]byte, n) followed by filling with v; make itself gives Zeros(n)
Fill(n, v) == Elements([i \in 1..n |-> B(v)], n)

Zeros(n) == Fill(n, 0)

\* Go's conversion byte(i) of an int
byte(i) == i % 256

\* copy(dst, src): the first min(len) bytes of dst are overwritten
copy(dst, src) ==
    Elements([i \in 1..Len(dst) |-> IF i <= Len(src) THEN src[i] ELSE dst[i]],
             Len(dst))

(***************************************************************************)
(* uint64 arithmetic on base-128 digits                                    *)
(***************************************************************************)
RECURSIVE Digits(_, _)
Digits(n, k) ==
    IF k = 0 THEN <<>> ELSE <<n % 128>> \o Digits(n \div 128, k - 1)

\* uint64(n) for a non-negative int n
Uint64(n) == Digits(n, MaxVarintLen64)

MaxUint64 ==
    Elements([i \in 1..MaxVarintLen64 |-> IF i = MaxVarintLen64 THEN 1 ELSE 127],
             MaxVarintLen64)

\* the digits of x + y from digit i on, given the carry into digit i; the
\* carry out of bit 63 is dropped
RECURSIVE AddFrom(_, _, _, _)
AddFrom(x, y, i, carry) ==
    IF i > MaxVarintLen64 THEN <<>>
    ELSE LET s == x[i] + y[i] + carry
         IN  <<s % (IF i = MaxVarintLen64 THEN 2 ELSE 128)>>
                 \o AddFrom(x, y, i + 1, s \div 128)

\* x + y on uint64
Add64(x, y) == AddFrom(x, y, 1, 0)

RECURSIVE GtFrom(_, _, _)
GtFrom(x, y, i) ==
    IF i = 0 THEN FALSE
    ELSE IF x[i] # y[i] THEN x[i] > y[i]
    ELSE GtFrom(x, y, i - 1)

\* x > y on uint64 (unsigned)
Gt64(x, y) == GtFrom(x, y, MaxVarintLen64)

\* x >= 0x80
Ge0x80(x) == \E i \in 2..MaxVarintLen64 : x[i] # 0

\* x >>= 7
Shr7(x) == Tail(x) \o <<0>>

(***************************************************************************)
(* binary.PutUvarint: the bytes buf[:n] it leaves                          *)
(*   for x >= 0x80 { buf[i] = byte(x) | 0x80; x >>= 7; i++ }               *)
(*   buf[i] = byte(x)                                                      *)
(***************************************************************************)
RECURSIVE PutUvarint(_)
PutUvarint(x) ==
    IF Ge0x80(x)
    THEN <<B(x[1] + 128)>> \o PutUvarint(Shr7(x))
    ELSE <<B(x[1])>>

(***************************************************************************)
(* The hasher (blake2b.New256): its state is the stream written so far     *)
(***************************************************************************)
New256 == <<>>

Write(h, p) == h \o p

\* Reset that leaves the state as it is
ResetKeeps(h) == h

Reset(h) == <<>>

\* the 32 checksum bytes of the stream h
checkSum(h) ==
    Elements([k \in 1..Size256 |-> [lit |-> -1, pre |-> h, pos |-> k]], Size256)

\* w.Write(buf[:]) in place of w.Write(buf[:n]): the whole zero-padded buffer
WriteUvarintWholeBuf(h, x) == Write(h, copy(Zeros(MaxVarintLen64), PutUvarint(x)))

WriteUvarint(h, x) == Write(h, PutUvarint(x))

writeUvarint(h, x) == Write(h, PutUvarint(x))

(***************************************************************************)
(* Slices: [nil, len, arr], arr the backing array from the slice's start   *)
(***************************************************************************)
NilSlice == [nil |-> TRUE, len |-> 0, arr |-> <<>>]

Slice(s, n) == [nil |-> FALSE, len |-> n, arr |-> s]

cap(s) == Len(s.arr)

\* append(s, p...): in place when the capacity suffices, else a new array.
\* Gives the returned slice, the old backing array afterwards, and whether
\* the returned slice shares it.
append(s, p) ==
    IF s.len + Len(p) <= cap(s) /\ ~s.nil
    THEN LET arr2 == Elements([i \in 1..cap(s) |->
                                  IF i > s.len /\ i <= s.len + Len(p)
                                  THEN p[i - s.len] ELSE s.arr[i]], cap(s))
         IN  [res |-> Slice(arr2, s.len + Len(p)), arr |-> arr2, shared |-> TRUE]
    ELSE [res |-> Slice(SubSeq(s.arr, 1, s.len) \o p, s.len + Len(p)),
          arr |-> s.arr, shared |-> FALSE]

\* hash.Sum(buf) == append(buf, checksum...)
Sum(h, buf) == append(buf, checkSum(h))

\* the bytes a slice holds
Elems(s) == SubSeq(s.arr, 1, s.len)

(***************************************************************************)
(* The functions.  Each gives the value returned and the final state of    *)
(* the hasher it created.                                                  *)
(***************************************************************************)
Data(d) ==
    LET h1 == Write(New256, <<B(LeafType)>>)
        h2 == WriteUvarint(h1, Uint64(Len(d)))
        h3 == Write(h2, d)
    IN  [hash |-> h3, digest |-> Elems(Sum(h3, NilSlice).res)]

RECURSIVE WriteAll(_, _)
WriteAll(h, buffers) ==
    IF buffers = <<>> THEN h
    ELSE WriteAll(Write(h, Head(buffers)), Tail(buffers))

\* Parent without "if a.Index > b.Index { a, b = b, a }"
ParentNoSwap(x, y) ==
    LET o == Slice(Zeros(Size256), Size256)
        parentType == <<B(ParentType)>>
        combinedSize == PutUvarint(Add64(x.Size, y.Size))
        buffers == <<parentType, combinedSize, x.Hash, y.Hash>>
        h == WriteAll(New256, buffers)
    IN  [hash |-> h, digest |-> Elems(Sum(h, [o EXCEPT !.len = 0]).res)]

\* Parent ordering its arguments by Size in place of Index
ParentSwapBySize(x, y) ==
    LET swap == Gt64(x.Size, y.Size)
        l == IF swap THEN y ELSE x
        r == IF swap THEN x ELSE y
        o == Slice(Zeros(Size256), Size256)
        parentType == <<B(ParentType)>>
        combinedSize == PutUvarint(Add64(l.Size, r.Size))
        buffers == <<parentType, combinedSize, l.Hash, r.Hash>>
        h == WriteAll(New256, buffers)
    IN  [hash |-> h, digest |-> Elems(Sum(h, [o EXCEPT !.len = 0]).res)]

\* Parent copying each child hash into a buffer of exactly 32 bytes
ParentFixed32(x, y) ==
    LET swap == Gt64(x.Index, y.Index)
        l == IF swap THEN y ELSE x
        r == IF swap THEN x ELSE y
        o == Slice(Zeros(Size256), Size256)
        parentType == <<B(ParentType)>>
        combinedSize == PutUvarint(Add64(l.Size, r.Size))
        buffers == <<parentType, combinedSize,
                     copy(Zeros(Size256), l.Hash), copy(Zeros(Size256), r.Hash)>>
        h == WriteAll(New256, buffers)
    IN  [hash |-> h, digest |-> Elems(Sum(h, [o EXCEPT !.len = 0]).res)]

Parent(x, y) ==
    LET swap == Gt64(x.Index, y.Index)
        l == IF swap THEN y ELSE x
        r == IF swap THEN x ELSE y
        o == Slice(Zeros(Size256), Size256)
        parentType == <<B(ParentType)>>
        combinedSize == PutUvarint(Add64(l.Size, r.Size))
        buffers == <<parentType, combinedSize, l.Hash, r.Hash>>
        h == WriteAll(New256, buffers)
    IN  [hash |-> h, digest |-> Elems(Sum(h, [o EXCEPT !.len = 0]).res)]

\* the loop body writing Size before Index
WriteRootSizeFirst(h, r) ==
    writeUvarint(writeUvarint(Write(h, r.Hash), r.Size), r.Index)

\* the body of "for _, r := range roots"
WriteRoot(h, r) ==
    writeUvarint(writeUvarint(Write(h, r.Hash), r.Index), r.Size)

RECURSIVE WriteRoots(_, _)
WriteRoots(h, rs) ==
    IF rs = <<>> THEN h
    ELSE WriteRoots(WriteRoot(h, Head(rs)), Tail(rs))

\* Tree writing ParentType as its tag
TreeParentTag(rs, o) ==
    LET h == WriteRoots(Write(New256, <<B(ParentType)>>), rs)
        o2 == IF o.nil THEN Slice(Zeros(Size256), Size256) ELSE o
        s == Sum(h, [o2 EXCEPT !.len = 0])
    IN  [hash |-> h,
         digest |-> Elems(s.res),
         out |-> IF o.nil THEN o ELSE [o EXCEPT !.arr = s.arr],
         aliasesOut |-> ~o.nil /\ s.shared]

\* Tree with hash.Sum(out) in place of hash.Sum(out[:0])
TreeAppendsToOut(rs, o) ==
    LET h == WriteRoots(Write(New256, <<B(RootType)>>), rs)
        o2 == IF o.nil THEN Slice(Zeros(Size256), Size256) ELSE o
        s == Sum(h, o2)
    IN  [hash |-> h,
         digest |-> Elems(s.res),
         out |-> IF o.nil THEN o ELSE [o EXCEPT !.arr = s.arr],
         aliasesOut |-> ~o.nil /\ s.shared]

\* also gives the caller's out slice after the call, and whether the
\* returned slice shares its backing array
Tree(rs, o) ==
    LET h == WriteRoots(Write(New256, <<B(RootType)>>), rs)
        o2 == IF o.nil THEN Slice(Zeros(Size256), Size256) ELSE o
        s == Sum(h, [o2 EXCEPT !.len = 0])
    IN  [hash |-> h,
         digest |-> Elems(s.res),
         out |-> IF o.nil THEN o ELSE [o EXCEPT !.arr = s.arr],
         aliasesOut |-> ~o.nil /\ s.shared]

DiscoveryKey(pk) ==
    LET h == Write(Write(New256, Bytes(Hypercore)), pk)
    IN  [hash |-> h, digest |-> Elems(Sum(h, NilSlice).res)]

\* the loop body without "ns[32] = byte(i)"
NamespaceBodyNoIndex(st, i) ==
    LET ns2 == st.ns
        h2 == Write(Reset(st.hash), ns2)
        id == copy(Zeros(Size256), Elems(Sum(h2, NilSlice).res))
    IN  [ids |-> [st.ids EXCEPT ![i + 1] = id], ns |-> ns2, hash |-> h2]

\* the body of "for i := range ids" at index i, on the locals st = [ids, ns, hash]
NamespaceBody(st, i) ==
    LET ns2 == [st.ns EXCEPT ![NsLen] = B(byte(i))]
        h2 == Write(Reset(st.hash), ns2)
        id == copy(Zeros(Size256), Elems(Sum(h2, NilSlice).res))
    IN  [ids |-> [st.ids EXCEPT ![i + 1] = id], ns |-> ns2, hash |-> h2]

\* the iterations lo, lo + 1, ..., hi - 1 of "for i := range ids", in this
\* order: the first half, then, while i < len(ids), the second half (the range
\* is halved so that the evaluation does not nest hi - lo deep)
RECURSIVE NamespaceLoop(_, _, _)
NamespaceLoop(st, lo, hi) ==
    IF hi <= lo THEN st
    ELSE IF hi = lo + 1 THEN NamespaceBody(st, lo)
    ELSE LET mid == (lo + hi) \div 2
             left == NamespaceLoop(st, lo, mid)
         IN  IF mid < Len(left.ids) THEN NamespaceLoop(left, mid, hi) ELSE left

\* make([][]byte, count) panics on a negative count
Namespace(nm, c) ==
    IF c < 0 THEN [status |-> "panic", ids |-> <<>>, hash |-> <<>>]
    ELSE LET h == Write(New256, nm)
             ns == copy(Zeros(NsLen), Elems(Sum(h, NilSlice).res))
             ids == Elements([i \in 1..c |-> <<>>], c)
             loop == NamespaceLoop([ids |-> ids, ns |-> ns, hash |-> h], 0, Len(ids))
         IN  [status |-> "ok", ids |-> loop.ids, hash |-> loop.hash]

(***************************************************************************)
(* The arguments the caller passes                                         *)
(***************************************************************************)
MaxDataLen == 2
MaxRoots == 2
MaxCount == 3

DataInputs ==
    {Fill(n, v) : n \in (0..MaxDataLen) \cup {127, 128}, v \in {0, 7}}
        \cup {Bytes(<<1, 2>>)}

Hash32 == Fill(Size256, 1)
LeafHash == Data(Bytes(<<97>>)).digest
ShortHashes == {Bytes(<<1>>), Bytes(<<1, 2>>), Bytes(<<3>>), Bytes(<<2, 3>>)}

Nodes ==
    [Index : {Uint64(0), Uint64(1), MaxUint64},
     Hash  : {Hash32, LeafHash} \cup ShortHashes,
     Size  : {Uint64(0), Uint64(1), Uint64(127), MaxUint64}]

RootNodes ==
    [Index : {Uint64(0), Uint64(1)},
     Hash  : {Hash32, LeafHash, Bytes(<<1, 2>>)},
     Size  : {Uint64(1), Uint64(128)}]

RECURSIVE SeqsUpTo(_, _)
SeqsUpTo(S, n) ==
    IF n = 0 THEN {<<>>}
    ELSE LET shorter == SeqsUpTo(S, n - 1)
         IN  shorter \cup {Append(s, x) : s \in {t \in shorter : Len(t) = n - 1}, x \in S}

RootSeqs == SeqsUpTo(RootNodes, MaxRoots)

OutBufs ==
    {NilSlice, Slice(<<>>, 0), Slice(Fill(8, 7), 8),
     Slice(Fill(Size256, 7), Size256), Slice(Fill(40, 7), 4)}

PublicKeys == {Fill(Size256, 9), Fill(Size256, 10), <<>>}

Names == {<<>>, Bytes(<<1>>), Bytes(<<110, 115>>)}

Counts == (-1..MaxCount) \cup {256, 257}

(***************************************************************************)
(* The state machine: the caller lays out the arguments of one call, the   *)
(* call runs to its return.  Nothing but the caller's memory lives from    *)
(* one call to the next.                                                   *)
(***************************************************************************)
ZeroNode == [Index |-> Uint64(0), Hash |-> <<>>, Size |-> Uint64(0)]

NoRet == [status |-> "none", digest |-> <<>>, ids |-> <<>>, aliasesOut |-> FALSE]

Digest(d) == [status |-> "ok", digest |-> d, ids |-> <<>>, aliasesOut |-> FALSE]

LayOut(o, d, x, y, rs, buf, pk, nm, c) ==
    /\ pc' = "idle"
    /\ op' = o
    /\ data' = d
    /\ a' = x
    /\ b' = y
    /\ roots' = rs
    /\ out' = buf
    /\ publicKey' = pk
    /\ name' = nm
    /\ count' = c
    /\ hash' = <<>>
    /\ ret' = NoRet

Init ==
    /\ pc = "start"
    /\ op = "none"
    /\ data = <<>>
    /\ a = ZeroNode
    /\ b = ZeroNode
    /\ roots = <<>>
    /\ out = NilSlice
    /\ publicKey = <<>>
    /\ name = <<>>
    /\ count = 0
    /\ hash = <<>>
    /\ ret = NoRet

PrepareData ==
    /\ pc = "start"
    /\ \E d \in DataInputs :
           LayOut("Data", d, ZeroNode, ZeroNode, <<>>, NilSlice, <<>>, <<>>, 0)

PrepareParent ==
    /\ pc = "start"
    /\ \E x \in Nodes, y \in Nodes :
           LayOut("Parent", <<>>, x, y, <<>>, NilSlice, <<>>, <<>>, 0)

PrepareTree ==
    /\ pc = "start"
    /\ \E rs \in RootSeqs, buf \in OutBufs :
           LayOut("Tree", <<>>, ZeroNode, ZeroNode, rs, buf, <<>>, <<>>, 0)

PrepareDiscoveryKey ==
    /\ pc = "start"
    /\ \E pk \in PublicKeys :
           LayOut("DiscoveryKey", <<>>, ZeroNode, ZeroNode, <<>>, NilSlice, pk, <<>>, 0)

PrepareNamespace ==
    /\ pc = "start"
    /\ \E nm \in Names, c \in Counts :
           LayOut("Namespace", <<>>, ZeroNode, ZeroNode, <<>>, NilSlice, <<>>, nm, c)

args == <<data, a, b, roots, publicKey, name, count>>

CallData ==
    /\ pc = "idle" /\ op = "Data"
    /\ LET r == Data(data)
       IN  hash' = r.hash /\ ret' = Digest(r.digest)
    /\ pc' = "done"
    /\ UNCHANGED <<op, args, out>>

CallParent ==
    /\ pc = "idle" /\ op = "Parent"
    /\ LET r == Parent(a, b)
       IN  hash' = r.hash /\ ret' = Digest(r.digest)
    /\ pc' = "done"
    /\ UNCHANGED <<op, args, out>>

CallTree ==
    /\ pc = "idle" /\ op = "Tree"
    /\ LET r == Tree(roots, out)
       IN  /\ hash' = r.hash
           /\ ret' = [Digest(r.digest) EXCEPT !.aliasesOut = r.aliasesOut]
           /\ out' = r.out
    /\ pc' = "done"
    /\ UNCHANGED <<op, args>>

CallDiscoveryKey ==
    /\ pc = "idle" /\ op = "DiscoveryKey"
    /\ LET r == DiscoveryKey(publicKey)
       IN  hash' = r.hash /\ ret' = Digest(r.digest)
    /\ pc' = "done"
    /\ UNCHANGED <<op, args, out>>

CallNamespace ==
    /\ pc = "idle" /\ op = "Namespace"
    /\ LET r == Namespace(name, count)
       IN  /\ hash' = r.hash
           /\ ret' = [NoRet EXCEPT !.status = r.status, !.ids = r.ids]
    /\ pc' = "done"
    /\ UNCHANGED <<op, args, out>>

\* the caller is finished with the result and the arguments
Release ==
    /\ pc = "done"
    /\ pc' = "start"
    /\ op' = "none"
    /\ data' = <<>>
    /\ a' = ZeroNode
    /\ b' = ZeroNode
    /\ roots' = <<>>
    /\ out' = NilSlice
    /\ publicKey' = <<>>
    /\ name' = <<>>
    /\ count' = 0
    /\ hash' = <<>>
    /\ ret' = NoRet

Next ==
    \/ PrepareData
    \/ PrepareParent
    \/ PrepareTree
    \/ PrepareDiscoveryKey
    \/ PrepareNamespace
    \/ CallData
    \/ CallParent
    \/ CallTree
    \/ CallDiscoveryKey
    \/ CallNamespace
    \/ Release

Spec == Init /\ [][Next]_vars

(***************************************************************************)
(* What the specification says, stated on its own terms                    *)
(***************************************************************************)
\* the number of significant base-128 digits of x (1 for zero)
SigDigits(x) ==
    IF \A i \in 1..MaxVarintLen64 : x[i] = 0 THEN 1
    ELSE CHOOSE i \in 1..MaxVarintLen64 :
            x[i] # 0 /\ \A j \in (i + 1)..MaxVarintLen64 : x[j] = 0

\* the minimal-length little-endian base-128 encoding: 7 bits a byte, the
\* continuation bit on every byte but the last
Varint(x) ==
    Elements([i \in 1..SigDigits(x) |->
                 B(x[i] + (IF i < SigDigits(x) THEN 128 ELSE 0))], SigDigits(x))

\* the value a varint decodes to
Decode(v) ==
    Elements([i \in 1..MaxVarintLen64 |-> IF i <= Len(v) THEN v[i].lit % 128 ELSE 0],
             MaxVarintLen64)

\* the value of a uint64 below 2^28
NatOf(x) == x[1] + 128 * x[2] + 16384 * x[3] + 2097152 * x[4]

\* x - 1 modulo 2^64, for x below 2^28 or equal to 2^64 - 1
Dec(x) ==
    IF x = Uint64(0) THEN MaxUint64
    ELSE IF x = MaxUint64 THEN [MaxUint64 EXCEPT ![1] = 126]
    ELSE Uint64(NatOf(x) - 1)

\* x + y modulo 2^64, for x, y below 2^27 or equal to 2^64 - 1
WrapSum(x, y) ==
    IF x = MaxUint64 THEN Dec(y)
    ELSE IF y = MaxUint64 THEN Dec(x)
    ELSE Uint64(NatOf(x) + NatOf(y))

RECURSIVE RootsStream(_)
RootsStream(rs) ==
    IF rs = <<>> THEN <<>>
    ELSE Head(rs).Hash \o Varint(Head(rs).Index) \o Varint(Head(rs).Size)
            \o RootsStream(Tail(rs))

Returned(o) == pc = "done" /\ op = o

Is32(h) == Len(h) = Size256

\* every digest and stream the functions give on the callers' arguments
LeafDigests == {Data(d).digest : d \in DataInputs}
ParentDigests == {Parent(x, y).digest : x \in Nodes, y \in Nodes}
RootDigests == {Tree(rs, NilSlice).digest : rs \in RootSeqs}

Nodes32 == {n \in Nodes : Is32(n.Hash)}
RootSeqs32 == {rs \in RootSeqs : \A i \in 1..Len(rs) : Is32(rs[i].Hash)}

\* Parent on every pair of nodes with 32-byte hashes: the children in stream
\* order and the stream
Parents32 ==
    {[l |-> IF Gt64(x.Index, y.Index) THEN y ELSE x,
      r |-> IF Gt64(x.Index, y.Index) THEN x ELSE y,
      hash |-> Parent(x, y).hash] : x \in Nodes32, y \in Nodes32}

Trees32 == {[roots |-> rs, hash |-> Tree(rs, NilSlice).hash] : rs \in RootSeqs32}

(***************************************************************************)
(* The claims                                                              *)
(***************************************************************************)
\* C1: Parent is commutative: for nodes a, b with a.Index # b.Index,
\* Parent(a, b) returns the same digest as Parent(b, a).
C1_ParentCommutative ==
    (Returned("Parent") /\ a.Index # b.Index)
        => /\ ret.digest = Parent(b, a).digest
           /\ hash = Parent(b, a).hash

C1_Witness ==
    /\ Returned("Parent")
    /\ Gt64(a.Index, b.Index)
    /\ a.Hash # b.Hash
    /\ a.Size # b.Size

\* C2: Parent(a, b) hashes exactly [0x01] ++ varint(a.Size + b.Size) ++
\* left.Hash ++ right.Hash, the sum taken modulo 2^64, left the node with
\* the smaller Index; with equal Index left = a and right = b; no Index is
\* in the stream.
C2_ParentStream ==
    Returned("Parent") =>
        LET left == IF Gt64(b.Index, a.Index) \/ a.Index = b.Index THEN a ELSE b
            right == IF Gt64(b.Index, a.Index) \/ a.Index = b.Index THEN b ELSE a
        IN  /\ hash = <<B(1)>> \o Varint(WrapSum(a.Size, b.Size))
                        \o left.Hash \o right.Hash
            /\ ret.status = "ok"
            /\ ret.digest = checkSum(hash)

C2_Witness ==
    /\ Returned("Parent")
    /\ a.Index = b.Index
    /\ a.Hash # b.Hash
    /\ a.Size = MaxUint64
    /\ b.Size = Uint64(1)
    /\ hash = <<B(1), B(0)>> \o a.Hash \o b.Hash

\* C3: Tree(roots, nil) hashes [0x02] followed, for each root in the
\* caller's order, by root.Hash ++ varint(root.Index) ++ varint(root.Size);
\* the empty sequence hashes [0x02] alone; two different roots with 32-byte
\* hashes give different streams in the two orders.
C3_TreeStream ==
    (Returned("Tree") /\ out.nil) =>
        /\ hash = <<B(2)>> \o RootsStream(roots)
        /\ ret.status = "ok"
        /\ ret.digest = checkSum(hash)
        /\ roots = <<>> => hash = <<B(2)>>
        /\ (/\ Len(roots) = 2
            /\ roots[1] # roots[2]
            /\ Is32(roots[1].Hash)
            /\ Is32(roots[2].Hash))
                => /\ hash # Tree(<<roots[2], roots[1]>>, out).hash
                   /\ ret.digest # Tree(<<roots[2], roots[1]>>, out).digest

C3_Witness ==
    /\ Returned("Tree")
    /\ out.nil
    /\ Len(roots) = 2
    /\ Is32(roots[1].Hash)
    /\ Is32(roots[2].Hash)
    /\ Gt64(roots[1].Index, roots[2].Index)
    /\ roots[1].Hash # roots[2].Hash

\* C4: Data(data) hashes exactly [0x00] ++ varint(len(data)) ++ data, the
\* varint being the minimal little-endian base-128 encoding (one byte below
\* 128, no padding byte, decoding back to len(data)); the digest is the
\* same at every call with the same data.
C4_DataStream ==
    Returned("Data") =>
        LET n == Len(hash) - 1 - Len(data)
            v == SubSeq(hash, 2, 1 + n)
        IN  /\ n >= 1
            /\ hash = <<B(0)>> \o v \o data
            /\ v = Varint(Uint64(Len(data)))
            /\ Decode(v) = Uint64(Len(data))
            /\ Len(data) < 128 => n = 1
            /\ n > 1 => v[n].lit # 0
            /\ \A i \in 1..n : (v[i].lit >= 128) <=> (i < n)
            /\ ret.status = "ok"
            /\ ret.digest = checkSum(hash)
            /\ ret.digest = Data(data).digest

C4_Witness ==
    /\ Returned("Data")
    /\ Len(data) = 128
    /\ SubSeq(hash, 1, 3) = <<B(0), B(128), B(1)>>

\* C5: the streams hashed by Data, Parent and Tree begin with the tags 0, 1
\* and 2, so that no two of them are equal, and, the hash being collision
\* free, no leaf digest is a parent digest or a root digest (Tree of the
\* empty sequence included), nor a parent digest a root digest.
C5_DomainSeparation ==
    /\ Returned("Data") =>
        /\ hash[1] = B(0)
        /\ ret.digest \notin ParentDigests
        /\ ret.digest \notin RootDigests
        /\ ret.digest # Tree(<<>>, NilSlice).digest
    /\ Returned("Parent") =>
        /\ hash[1] = B(1)
        /\ ret.digest \notin LeafDigests
        /\ ret.digest \notin RootDigests
    /\ Returned("Tree") =>
        /\ hash[1] = B(2)
        /\ ret.digest \notin LeafDigests
        /\ ret.digest \notin ParentDigests

C5_Witness ==
    /\ Returned("Tree")
    /\ roots = <<>>
    /\ hash = <<B(2)>>
    /\ LeafDigests # {}
    /\ ParentDigests # {}

\* C6: for count in 1..256, Namespace(name, count) returns count ids with
\* ids[i] = Hash(Hash(name) ++ [byte i]) in increasing i, each depending
\* only on name and i: Namespace(name, n)[i] = Namespace(name, m)[i] for
\* i < min(n, m).
C6_NamespaceIds ==
    (Returned("Namespace") /\ count \in 1..256) =>
        /\ ret.status = "ok"
        /\ Len(ret.ids) = count
        /\ \A i \in 0..(count - 1) :
              ret.ids[i + 1] = checkSum(checkSum(name) \o <<B(i)>>)
        /\ \A m \in Counts \cap (1..256) :
              LET other == Namespace(name, m).ids
              IN  \A i \in 1..(IF m < count THEN m ELSE count) :
                      other[i] = ret.ids[i]

C6_Witness ==
    /\ Returned("Namespace")
    /\ count = 3
    /\ name # <<>>
    /\ Len(ret.ids) = 3

\* C7: for count <= 256, the count ids Namespace(name, count) returns have
\* 32 bytes each and are pairwise distinct.
C7_NamespaceDistinct ==
    (Returned("Namespace") /\ count \in 0..256) =>
        /\ ret.status = "ok"
        /\ Len(ret.ids) = count
        /\ \A i \in 1..count : Len(ret.ids[i]) = 32
        /\ \A i \in 1..count : \A j \in (i + 1)..count : ret.ids[i] # ret.ids[j]

C7_Witness ==
    /\ Returned("Namespace")
    /\ count = 256
    /\ ret.status = "ok"
    /\ Len(ret.ids) = 256

\* C8: Namespace with a count outside 1..256 fails fast and returns
\* nothing; no call returns ids in which ids[i] = ids[i - 256].
C8_NamespaceFailsFast ==
    Returned("Namespace") =>
        /\ count \notin 1..256 => ret.status = "panic"
        /\ ret.status = "ok" =>
              \A i \in 257..Len(ret.ids) : ret.ids[i] # ret.ids[i - 256]

\* C9 as claimed: Parent and Tree return no digest when a node hash has not
\* exactly 32 bytes.
C9_HashLengthFailsFast ==
    /\ (Returned("Parent") /\ (~Is32(a.Hash) \/ ~Is32(b.Hash)))
            => ret.status = "panic"
    /\ (Returned("Tree") /\ \E i \in 1..Len(roots) : ~Is32(roots[i].Hash))
            => ret.status = "panic"

\* C9, amended: Parent and Tree never check the length of a node hash: they
\* return the digest of the stream that holds the hash bytes as given,
\* whatever their number; when every hash has exactly 32 bytes, the stream
\* determines the child hashes (the root sequence).
C9_HashLengthUnchecked ==
    /\ Returned("Parent") =>
        /\ ret.status = "ok"
        /\ ret.digest = checkSum(hash)
        /\ LET l == IF Gt64(a.Index, b.Index) THEN b ELSE a
               r == IF Gt64(a.Index, b.Index) THEN a ELSE b
           IN  /\ SubSeq(hash, Len(hash) - Len(l.Hash) - Len(r.Hash) + 1, Len(hash))
                    = l.Hash \o r.Hash
               /\ (Is32(a.Hash) /\ Is32(b.Hash)) =>
                    \A p \in Parents32 :
                        p.hash = hash => (p.l.Hash = l.Hash /\ p.r.Hash = r.Hash)
    /\ Returned("Tree") =>
        /\ ret.status = "ok"
        /\ ret.digest = checkSum(hash)
        /\ hash = <<B(2)>> \o RootsStream(roots)
        /\ (\A i \in 1..Len(roots) : Is32(roots[i].Hash)) =>
              \A t \in Trees32 : t.hash = hash => t.roots = roots

\* a call with hashes of 2 and 1 bytes returned the digest of the stream
\* that the hashes of 1 and 2 bytes give as well
C9_Witness ==
    /\ Returned("Parent")
    /\ a.Hash = Bytes(<<1, 2>>)
    /\ b.Hash = Bytes(<<3>>)
    /\ ret.status = "ok"
    /\ \E x \in Nodes, y \in Nodes :
          /\ x.Hash = Bytes(<<1>>)
          /\ y.Hash = Bytes(<<2, 3>>)
          /\ Parent(x, y).digest = ret.digest

\* C10 as claimed: a call leaves every argument of the caller as it was,
\* the out buffer given to Tree included.
C10_NoArgumentChanges ==
    [][(pc = "idle" /\ pc' = "done") =>
            (args' = args /\ out' = out)]_vars

\* C10, amended: a call leaves data, the nodes and their hashes, roots,
\* publicKey, name and count as they were, and its result depends on these
\* alone; the one argument written is Tree's out: when out is not nil and
\* has a capacity of at least 32, Tree writes the digest to the first 32
\* bytes of out's backing array and returns a slice of that array; else out
\* is left as it was.
C10_OnlyOutIsWritten ==
    [][(pc = "idle" /\ pc' = "done") =>
        /\ args' = args
        /\ op' = op
        /\ (op = "Tree" /\ ~out.nil /\ cap(out) >= Size256)
              => /\ out' = [out EXCEPT !.arr =
                              ret'.digest \o SubSeq(out.arr, Size256 + 1, cap(out))]
                 /\ ret'.aliasesOut
        /\ ~(op = "Tree" /\ ~out.nil /\ cap(out) >= Size256)
              => (out' = out /\ ~ret'.aliasesOut)
        /\ op = "Data" => ret'.digest = checkSum(<<B(0)>> \o Varint(Uint64(Len(data))) \o data)
        /\ op = "Tree" => ret'.digest = checkSum(<<B(2)>> \o RootsStream(roots))
        /\ op = "DiscoveryKey" => ret'.digest = checkSum(Bytes(Hypercore) \o publicKey)
        /\ op = "Parent" =>
              \E l \in {a, b}, r \in {a, b} :
                  /\ {l, r} = {a, b}
                  /\ ret'.digest = checkSum(<<B(1)>> \o Varint(WrapSum(a.Size, b.Size))
                                                \o l.Hash \o r.Hash)
        /\ (op = "Namespace" /\ count >= 0) =>
              ret'.ids = Elements([i \in 1..count |->
                            checkSum(checkSum(name) \o <<B((i - 1) % 256)>>)], count)
        /\ (op = "Namespace" /\ count < 0) => ret'.status = "panic"
      ]_vars

C10_Witness ==
    /\ Returned("Tree")
    /\ ret.aliasesOut
    /\ out.len = 4
    /\ cap(out) = 40
    /\ SubSeq(out.arr, 1, Size256) = ret.digest
    /\ out.arr[Size256 + 1] = B(7)

====
